---- MODULE Spec2Model ----
(***************************************************************************)
(* A model of forthc: the lexer's ordered rule list, the code generator    *)
(* (Codegen.Generate / GenerateFromProgram) producing assembly text, and   *)
(* the 32-bit register machine that text is written for.                   *)
(*                                                                         *)
(* Assembly text is a sequence of instruction records; the field nl says   *)
(* whether the instruction's text ends in a line terminator.  32-bit       *)
(* values are kept as signed integers in MinInt32..MaxInt32 and every      *)
(* arithmetic operator wraps explicitly.                                   *)
(***************************************************************************)
EXTENDS Integers, Sequences, FiniteSets, TLC

VARIABLES
    prog,         \* the Program being compiled: its top-level Expressions
    pos,          \* index of the next top-level expression (the range loop)
    phase,        \* position in the pipeline
    Environment,  \* Codegen.Environment
    HeapOffset,   \* Codegen.HeapOffset
    uuids,        \* number of identifiers drawn from the label source so far
    out,          \* the sink: the text written so far
    err,          \* the error GenerateFromProgram returned (NoErr: none)
    lastDef,      \* history: name -> body text of the last word definition generated
    code,         \* the text loaded into the machine
    pc,           \* machine: index of the next instruction
    regs,         \* machine: register file
    mem,          \* machine: memory (address -> word), zero where absent
    visits,       \* history: how often each line of code has been executed
    steps,        \* machine: instructions executed
    input,        \* lexer: the remaining source text
    tokens        \* lexer: the tokens produced so far

vars == <<prog, pos, phase, Environment, HeapOffset, uuids, out, err, lastDef,
          code, pc, regs, mem, visits, steps, input, tokens>>

genVars == <<prog, pos, Environment, HeapOffset, uuids, out, err, lastDef>>
machVars == <<code, pc, regs, mem, visits, steps>>
lexVars == <<input, tokens>>

(***************************************************************************)
(* 32-bit two's complement arithmetic                                      *)
(***************************************************************************)
MaxInt32 == 2147483647
MinInt32 == (-2147483647) - 1

Add32(a, b) ==
    IF b > 0 /\ a > MaxInt32 - b
      THEN ((a - MaxInt32) - 1) + ((b - MaxInt32) - 1)
      ELSE IF b < 0 /\ a < MinInt32 - b
             THEN ((a + MaxInt32) + 1) + ((b + MaxInt32) + 1)
             ELSE a + b

Neg32(a) == IF a = MinInt32 THEN MinInt32 ELSE -a

Sub32(a, b) ==
    IF b = MinInt32 THEN Add32(Add32(a, MaxInt32), 1) ELSE Add32(a, -b)

RECURSIVE MulNat32(_, _)
MulNat32(a, b) ==
    IF b = 0 THEN 0
    ELSE LET half == MulNat32(Add32(a, a), b \div 2)
         IN  IF b % 2 = 1 THEN Add32(half, a) ELSE half

Mul32(a, b) ==
    IF b = MinInt32 THEN (IF a % 2 = 1 THEN MinInt32 ELSE 0)
    ELSE IF b < 0 THEN Neg32(MulNat32(a, -b))
    ELSE MulNat32(a, b)

\* the quotient of the magnitude of MinInt32 by d, for d in 2..MaxInt32
MinMagDiv(d) ==
    LET q == MaxInt32 \div d
        r == MaxInt32 - q * d
    IN  IF r + 1 = d THEN q + 1 ELSE q

\* signed division rounding towards zero; x/0 = -1 and MinInt32/-1 = MinInt32
Div32(a, b) ==
    IF b = 0 THEN -1
    ELSE IF b = 1 THEN a
    ELSE IF b = -1 THEN Neg32(a)
    ELSE IF b = MinInt32 THEN (IF a = MinInt32 THEN 1 ELSE 0)
    ELSE IF a = MinInt32
           THEN (IF b > 0 THEN -MinMagDiv(b) ELSE MinMagDiv(-b))
    ELSE LET ma == IF a < 0 THEN -a ELSE a
             mb == IF b < 0 THEN -b ELSE b
             q  == ma \div mb
         IN  IF (a < 0) = (b < 0) THEN q ELSE -q

(***************************************************************************)
(* Assembly text                                                           *)
(***************************************************************************)
\* an immediate operand as written: sign marker, radix prefix, and the
\* formatted number (its own sign, its digits)
Imm(sign, pfx, neg, digits) ==
    [sign |-> sign, pfx |-> pfx, neg |-> neg, digits |-> digits]

NoImm == Imm("", "", FALSE, <<>>)

Label(id, sfx) == [id |-> id, sfx |-> sfx]

NoLabel == Label(0, "")

Instr(op, rd, rs1, rs2, imm, lbl) ==
    [op |-> op, rd |-> rd, rs1 |-> rs1, rs2 |-> rs2, imm |-> imm, lbl |-> lbl,
     nl |-> TRUE]

\* the same instruction without its line terminator
NoNewline(ins) == [ins EXCEPT !.nl = FALSE]

RECURSIVE Digits(_, _)
Digits(n, base) ==
    IF n < base THEN <<n>> ELSE Append(Digits(n \div base, base), n % base)

RECURSIVE IncDigits(_, _)
IncDigits(ds, base) ==
    IF ds = <<>> THEN <<1>>
    ELSE LET last == ds[Len(ds)]
             init == SubSeq(ds, 1, Len(ds) - 1)
         IN  IF last + 1 < base THEN Append(init, last + 1)
             ELSE Append(IncDigits(init, base), 0)

\* fmt's %x verb on an int32: a minus sign for a negative value, then the
\* hexadecimal digits of its magnitude
FormatHex(x) ==
    IF x >= 0 THEN [neg |-> FALSE, digits |-> Digits(x, 16)]
    ELSE [neg |-> TRUE, digits |-> IncDigits(Digits(-(x + 1), 16), 16)]

Hex(n) == Imm("", "0x", FALSE, Digits(n, 16))
NegHex(n) == Imm("-", "0x", FALSE, Digits(n, 16))
Dec(n) == Imm("", "", FALSE, Digits(n, 10))

Pop(r) ==
    << Instr("addi", "sp", "sp", "", NegHex(4), NoLabel),
       Instr("lw", r, "sp", "", Dec(0), NoLabel) >>

Push(r) ==
    << Instr("sw", r, "sp", "", Dec(0), NoLabel),
       Instr("addi", "sp", "sp", "", Hex(4), NoLabel) >>

LabelLine(lbl) == Instr("label", "", "", "", NoImm, lbl)

StackBase == 268500992
HeapBase == 268697600

Preamble ==
    << Instr("j", "", "", "", NoImm, Label(0, "init")),
       LabelLine(Label(0, "init")),
       Instr("li", "sp", "", "", Hex(StackBase), NoLabel),
       Instr("li", "s0", "", "", Hex(HeapBase), NoLabel),
       Instr("j", "", "", "", NoImm, Label(0, "main")),
       Instr("", "", "", "", NoImm, NoLabel),
       LabelLine(Label(0, "main")) >>

(***************************************************************************)
(* AST                                                                     *)
(***************************************************************************)
Node(type, value, name, body, elseBody) ==
    [type |-> type, Value |-> value, Name |-> name, Body |-> body,
     ElseBody |-> elseBody]

IntegerNode(v) == Node("Integer", v, "", <<>>, <<>>)
SymbolNode(s) == Node("Symbol", 0, s, <<>>, <<>>)
BinOpNode(operation) == Node("BinOp", 0, operation, <<>>, <<>>)
UnOpNode(operation) == Node("UnOp", 0, operation, <<>>, <<>>)
VariableDefNode(identifier) == Node("VariableDef", 0, identifier, <<>>, <<>>)
ReceiveNode(identifier) == Node("Receive", 0, identifier, <<>>, <<>>)
AssignNode(identifier) == Node("Assign", 0, identifier, <<>>, <<>>)
CmoveNode == Node("Cmove", 0, "", <<>>, <<>>)
SymbolDefNode(symbol, body) == Node("SymbolDef", 0, symbol, body, <<>>)
IfThenElseNode(thenBody, elseBody) == Node("IfThenElse", 0, "", thenBody, elseBody)
DoLoopNode(body) == Node("DoLoop", 0, "", body, <<>>)
BeginUntilNode(body) == Node("BeginUntil", 0, "", body, <<>>)

(***************************************************************************)
(* Code generator                                                          *)
(***************************************************************************)
NoErr == [kind |-> "", name |-> ""]

\* a faulty variant of Errorf: the message does not carry the name
ErrorfNoName(kind, name) == [kind |-> kind, name |-> ""]

Errorf(kind, name) == [kind |-> kind, name |-> name]

\* a faulty variant of MapSet: an existing binding is kept
MapSetKeepFirst(m, k, v) ==
    [n \in DOMAIN m \cup {k} |-> IF n \in DOMAIN m THEN m[n] ELSE v]

\* map assignment and delete on Environment
MapSet(m, k, v) == [n \in DOMAIN m \cup {k} |-> IF n = k THEN v ELSE m[n]]
MapDelete(m, k) == [n \in DOMAIN m \ {k} |-> m[n]]

NewGenerator ==
    [Environment |->
        [n \in {"dup", "swap", "drop"} |->
            CASE n = "dup" ->
                    Pop("t0")
                    \o << Instr("addi", "sp", "sp", "", Hex(4), NoLabel) >>
                    \o Push("t0")
              [] n = "swap" ->
                    Pop("t0") \o Pop("t1")
                    \o << Instr("sw", "t0", "sp", "", Dec(0), NoLabel),
                          Instr("addi", "sp", "sp", "", Hex(4), NoLabel) >>
                    \o Push("t1")
              [] n = "drop" ->
                    << NoNewline(Instr("addi", "sp", "sp", "", NegHex(4), NoLabel)) >>],
     HeapOffset |-> 0,
     uuids |-> 0]

\* uuid.NewString(): the next identifier of the label source, never one it
\* has returned before
NewString(cd) == cd.uuids + 1

Drawn(cd) == [cd EXCEPT !.uuids = cd.uuids + 1]

Reg(n) == CASE n = 3 -> "t3" [] n = 4 -> "t4" [] n = 5 -> "t5" [] n = 6 -> "t6"

\* case IntegerNode
IntegerText(v) ==
    LET f == IF v < 0 THEN FormatHex(Mul32(v, -1)) ELSE FormatHex(v)
        sign == IF v < 0 THEN "-" ELSE ""
    IN  << Instr("li", "t0", "", "", Imm(sign, "0x", f.neg, f.digits), NoLabel) >>
        \o Push("t0")

BinOps == {"+", "-", "*", "/", "<", ">", "<=", ">=", "=", "<>", "and", "or"}

Branch(op, rs1, rs2, lbl) == Instr(op, "", rs1, rs2, NoImm, lbl)
Li(rd, n) == Instr("li", rd, "", "", Dec(n), NoLabel)
Alu(op, rd, rs1, rs2) == Instr(op, rd, rs1, rs2, NoImm, NoLabel)
NegT0 == Instr("neg", "t0", "t0", "", NoImm, NoLabel)

\* case BinOpNode: the inner switch on node.Operation
BinOpText(operation, lbl) ==
    LET l == Label(lbl, "")
    IN  CASE operation = "+" -> << Alu("add", "t0", "t1", "t2") >>
          [] operation = "-" -> << Alu("sub", "t0", "t1", "t2") >>
          [] operation = "*" -> << Alu("mul", "t0", "t1", "t2") >>
          [] operation = "/" -> << Alu("div", "t0", "t1", "t2") >>
          [] operation = "<" -> << Alu("slt", "t0", "t1", "t2"), NegT0 >>
          [] operation = ">" -> << Alu("slt", "t0", "t2", "t1"), NegT0 >>
          [] operation = "<=" ->
                << Li("t0", 1), Branch("beq", "t1", "t2", l),
                   Alu("slt", "t0", "t1", "t2"), LabelLine(l), NegT0 >>
          [] operation = ">=" ->
                << Li("t0", 1), Branch("beq", "t1", "t2", l),
                   Alu("slt", "t0", "t2", "t1"), LabelLine(l), NegT0 >>
          [] operation = "=" ->
                << Li("t0", 1), Branch("beq", "t1", "t2", l),
                   Li("t0", 0), LabelLine(l), NegT0 >>
          [] operation = "<>" ->
                << Li("t0", 1), Branch("bne", "t1", "t2", l),
                   Li("t0", 0), LabelLine(l), NegT0 >>
          [] operation = "and" ->
                << Li("t0", 0), Branch("beqz", "t1", "", l),
                   Branch("beqz", "t2", "", l),
                   Li("t0", 1), LabelLine(l), NegT0 >>
          [] operation = "or" ->
                << Li("t0", 1), Branch("bnez", "t1", "", l),
                   Branch("bnez", "t2", "", l),
                   Li("t0", 0), LabelLine(l), NegT0 >>

\* a faulty variant of BinOpPops: the left operand is popped first
BinOpPopsLeftFirst == Pop("t1") \o Pop("t2")

\* case BinOpNode: the operand pops before the switch (right operand first)
BinOpPops == Pop("t2") \o Pop("t1")

\* case UnOpNode: the inner switch on node.Operation
UnOpText(operation, lbl) ==
    LET l == Label(lbl, "")
    IN  << Li("t0", 1), Branch("beqz", "t1", "", l),
           Li("t0", 0), LabelLine(l), NegT0 >>

\* case IfThenElseNode: the text written once both bodies are generated
IfThenElseText(thenBody, elseBody, lbl) ==
    Pop("t0")
    \o << Branch("beq", "t0", "zero", Label(lbl, "_else")) >>
    \o thenBody
    \o << Instr("j", "", "", "", NoImm, Label(lbl, "")),
          LabelLine(Label(lbl, "_else")) >>
    \o elseBody
    \o << LabelLine(Label(lbl, "")) >>

\* a faulty variant of DoLoopText: the limit is popped before the index
DoLoopTextLimitFirst(ind, lmt, body, lbl) ==
    Pop(Reg(lmt)) \o Pop(Reg(ind))
    \o << LabelLine(Label(lbl, "")) >>
    \o body
    \o << Instr("addi", Reg(ind), Reg(ind), "", Hex(1), NoLabel),
          Branch("bne", Reg(lmt), Reg(ind), Label(lbl, "")) >>

\* case DoLoopNode: the text written once the body is generated
DoLoopText(ind, lmt, body, lbl) ==
    Pop(Reg(ind)) \o Pop(Reg(lmt))
    \o << LabelLine(Label(lbl, "")) >>
    \o body
    \o << Instr("addi", Reg(ind), Reg(ind), "", Hex(1), NoLabel),
          Branch("bne", Reg(lmt), Reg(ind), Label(lbl, "")) >>

\* the text bound to a loop index name
IndexText(ind) == Push(Reg(ind))

\* a faulty variant of BeginUntilText: the branch back is taken on a non-zero flag
BeginUntilTextWhile(body, lbl) ==
    << LabelLine(Label(lbl, "")) >>
    \o body
    \o Pop("t0")
    \o << Branch("bnez", "t0", "", Label(lbl, "")) >>

\* case BeginUntilNode: the text written once the body is generated
BeginUntilText(body, lbl) ==
    << LabelLine(Label(lbl, "")) >>
    \o body
    \o Pop("t0")
    \o << Branch("beqz", "t0", "", Label(lbl, "")) >>

\* a faulty variant of AccessorText: the offset is read after it was advanced
AccessorTextAfterAdvance(heapOffset) ==
    << Instr("addi", "t0", "s0", "", Hex(heapOffset + 4), NoLabel) >> \o Push("t0")

\* case VariableDefNode: the accessor bound to the name
AccessorText(heapOffset) ==
    << Instr("addi", "t0", "s0", "", Hex(heapOffset), NoLabel) >> \o Push("t0")

\* case ReceiveNode: the text after the accessor
ReceiveText ==
    Pop("t0") \o << Instr("lw", "t0", "t0", "", Dec(0), NoLabel) >> \o Push("t0")

\* case AssignNode: the text after the accessor
AssignText ==
    Pop("t0") \o Pop("t1") \o << Instr("sw", "t1", "t0", "", Dec(0), NoLabel) >>

\* case CmoveNode
CmoveText(lbl) ==
    Pop("t0") \o Pop("t1") \o Pop("t2")
    \o << LabelLine(Label(lbl, "")),
          Instr("lw", "t3", "t2", "", Dec(0), NoLabel),
          Instr("sw", "t3", "t1", "", Dec(0), NoLabel),
          Instr("addi", "t0", "t0", "", NegHex(1), NoLabel),
          Instr("addi", "t1", "t1", "", Hex(4), NoLabel),
          Instr("addi", "t2", "t2", "", Hex(4), NoLabel),
          Branch("bnez", "t0", "", Label(lbl, "")) >>

\* a faulty variant of Lookup: the ok result is ignored, a missing name
\* yields the empty text
LookupIgnoringOk(env, name) ==
    [ok |-> TRUE, body |-> IF name \in DOMAIN env THEN env[name] ELSE <<>>]

\* body, ok := cd.Environment[name]
Lookup(env, name) ==
    IF name \in DOMAIN env THEN [ok |-> TRUE, body |-> env[name]]
                            ELSE [ok |-> FALSE, body |-> <<>>]

\* what one call of Generate did: the generator afterwards, the text it
\* wrote to its out writer, and the error it returned
Result(cd, text, e) == [cd |-> cd, out |-> text, err |-> e]

\* case DoLoopNode: the choice of the index name and register pair.  The
\* deferred delete runs when Generate returns, with or without an error.
LoopIndex(cd) ==
    IF "i" \in DOMAIN cd.Environment
      THEN [ind |-> 4, lmt |-> 3, name |-> "j"]
      ELSE [ind |-> 6, lmt |-> 5, name |-> "i"]

RECURSIVE Generate(_, _), GenerateBody(_, _, _)

\* the loop `for _, exp := range body { err := cd.Generate(exp, &buf) ... }`
\* from element k on; out is what the buffer holds afterwards
GenerateBody(body, cd, buf) ==
    IF body = <<>> THEN Result(cd, buf, NoErr)
    ELSE LET r == Generate(Head(body), cd)
         IN  IF r.err # NoErr THEN Result(r.cd, buf \o r.out, r.err)
             ELSE GenerateBody(Tail(body), r.cd, buf \o r.out)

Generate(node, cd) ==
    CASE node.type = "Integer" -> Result(cd, IntegerText(node.Value), NoErr)
      [] node.type = "BinOp" ->
            IF node.Name \in BinOps
              THEN Result(Drawn(cd),
                          BinOpPops \o BinOpText(node.Name, NewString(cd)) \o Push("t0"),
                          NoErr)
              ELSE Result(Drawn(cd), BinOpPops, Errorf("unexpected binary operation", node.Name))
      [] node.type = "UnOp" ->
            IF node.Name = "invert"
              THEN Result(Drawn(cd),
                          Pop("t1") \o UnOpText(node.Name, NewString(cd)) \o Push("t0"),
                          NoErr)
              ELSE Result(Drawn(cd), Pop("t1"), Errorf("unexpected unary operation", node.Name))
      [] node.type = "Symbol" ->
            LET b == Lookup(cd.Environment, node.Name)
            IN  IF b.ok THEN Result(cd, b.body, NoErr)
                ELSE Result(cd, <<>>, Errorf("undefined symbol", node.Name))
      [] node.type = "SymbolDef" ->
            LET r == GenerateBody(node.Body, cd, <<>>)
            IN  IF r.err # NoErr THEN Result(r.cd, <<>>, r.err)
                ELSE Result([r.cd EXCEPT !.Environment = MapSet(@, node.Name, r.out)],
                            <<>>, NoErr)
      [] node.type = "IfThenElse" ->
            LET t == GenerateBody(node.Body, cd, <<>>)
                e == GenerateBody(node.ElseBody, t.cd, <<>>)
            IN  IF t.err # NoErr THEN Result(t.cd, <<>>, t.err)
                ELSE IF e.err # NoErr THEN Result(e.cd, <<>>, e.err)
                ELSE Result(Drawn(e.cd),
                            IfThenElseText(t.out, e.out, NewString(e.cd)), NoErr)
      [] node.type = "DoLoop" ->
            LET x == LoopIndex(cd)
                bound == [cd EXCEPT !.Environment = MapSet(@, x.name, IndexText(x.ind))]
                r == GenerateBody(node.Body, bound, <<>>)
                after == [r.cd EXCEPT !.Environment = MapDelete(@, x.name)]
            IN  IF r.err # NoErr THEN Result(after, <<>>, r.err)
                ELSE Result(Drawn(after),
                            DoLoopText(x.ind, x.lmt, r.out, NewString(after)), NoErr)
      [] node.type = "BeginUntil" ->
            LET r == GenerateBody(node.Body, cd, <<>>)
            IN  IF r.err # NoErr THEN Result(r.cd, <<>>, r.err)
                ELSE Result(Drawn(r.cd), BeginUntilText(r.out, NewString(r.cd)), NoErr)
      [] node.type = "VariableDef" ->
            Result([cd EXCEPT !.Environment = MapSet(@, node.Name, AccessorText(cd.HeapOffset)),
                              !.HeapOffset = @ + 4],
                   <<>>, NoErr)
      [] node.type = "Receive" ->
            LET b == Lookup(cd.Environment, node.Name)
            IN  IF b.ok THEN Result(cd, b.body \o ReceiveText, NoErr)
                ELSE Result(cd, <<>>, Errorf("undefined variable", node.Name))
      [] node.type = "Assign" ->
            LET b == Lookup(cd.Environment, node.Name)
            IN  IF b.ok THEN Result(cd, b.body \o AssignText, NoErr)
                ELSE Result(cd, <<>>, Errorf("undefined variable", node.Name))
      [] node.type = "Cmove" -> Result(Drawn(cd), CmoveText(NewString(cd)), NoErr)
      [] OTHER -> Result(cd, <<>>, Errorf("receive unexpected node", node.type))

(***************************************************************************)
(* The register machine the text is written for                            *)
(***************************************************************************)
Registers == {"zero", "sp", "s0", "t0", "t1", "t2", "t3", "t4", "t5", "t6"}

RECURSIVE DigitsValue(_, _)
DigitsValue(ds, base) ==
    IF ds = <<>> THEN 0
    ELSE DigitsValue(SubSeq(ds, 1, Len(ds) - 1), base) * base + ds[Len(ds)]

\* an immediate is a sign marker, a radix prefix and digits; a second sign
\* inside the number is no number
ImmWellFormed(imm) == ~imm.neg

ImmValue(imm) ==
    LET m == DigitsValue(imm.digits, IF imm.pfx = "0x" THEN 16 ELSE 10)
    IN  IF imm.sign = "-" THEN -m ELSE m

LabelDefs(text, lbl) == {k \in 1..Len(text) : text[k].op = "label" /\ text[k].lbl = lbl}

BranchOps == {"beq", "bne", "beqz", "bnez", "j"}

\* the assembler accepts a text whose lines hold one instruction each, whose
\* immediates are numbers, and whose labels are defined exactly once
Assembles(text) ==
    /\ \A k \in 1..Len(text) : k < Len(text) => text[k].nl
    /\ \A k \in 1..Len(text) : ImmWellFormed(text[k].imm)
    /\ \A k \in 1..Len(text) :
          text[k].op \in BranchOps \cup {"label"} =>
              Cardinality(LabelDefs(text, text[k].lbl)) = 1

Target(text, lbl) == CHOOSE k \in LabelDefs(text, lbl) : TRUE

ReadReg(r, name) == IF name = "zero" THEN 0 ELSE r[name]

WriteReg(r, name, v) == IF name = "zero" THEN r ELSE [r EXCEPT ![name] = v]

ReadMem(m, a) == IF a \in DOMAIN m THEN m[a] ELSE 0

WriteMem(m, a, v) == [x \in DOMAIN m \cup {a} |-> IF x = a THEN v ELSE m[x]]

\* the register file, memory and pc after executing instruction ins at pc p
Exec(ins, p, r, m, text) ==
    LET a == ReadReg(r, ins.rs1)
        b == ReadReg(r, ins.rs2)
        next == [pc |-> p + 1, regs |-> r, mem |-> m]
        set(v) == [next EXCEPT !.regs = WriteReg(r, ins.rd, v)]
        jump(cond) == IF cond THEN [next EXCEPT !.pc = Target(text, ins.lbl)] ELSE next
    IN  CASE ins.op = "li"   -> set(ImmValue(ins.imm))
          [] ins.op = "addi" -> set(Add32(a, ImmValue(ins.imm)))
          [] ins.op = "lw"   -> set(ReadMem(m, Add32(a, ImmValue(ins.imm))))
          [] ins.op = "sw"   ->
                [next EXCEPT !.mem = WriteMem(m, Add32(a, ImmValue(ins.imm)),
                                              ReadReg(r, ins.rd))]
          [] ins.op = "add"  -> set(Add32(a, b))
          [] ins.op = "sub"  -> set(Sub32(a, b))
          [] ins.op = "mul"  -> set(Mul32(a, b))
          [] ins.op = "div"  -> set(Div32(a, b))
          [] ins.op = "slt"  -> set(IF a < b THEN 1 ELSE 0)
          [] ins.op = "neg"  -> set(Neg32(a))
          [] ins.op = "beq"  -> jump(a = b)
          [] ins.op = "bne"  -> jump(a # b)
          [] ins.op = "beqz" -> jump(a = 0)
          [] ins.op = "bnez" -> jump(a # 0)
          [] ins.op = "j"    -> jump(TRUE)
          [] OTHER -> next

(***************************************************************************)
(* The pipeline: GenerateFromProgram, then assembling and running the text *)
(***************************************************************************)
MaxSteps == 700

Codegen == [Environment |-> Environment, HeapOffset |-> HeapOffset, uuids |-> uuids]

\* GenerateFromProgram: cd.GeneratePreamble(out)
GeneratePreamble ==
    /\ phase = "start"
    /\ out' = out \o Preamble
    /\ phase' = "generate"
    /\ UNCHANGED <<prog, pos, Environment, HeapOffset, uuids, err, lastDef>>
    /\ UNCHANGED <<machVars, lexVars>>

\* GenerateFromProgram: one iteration of the loop over prog.Expressions
GenerateNext ==
    /\ phase = "generate"
    /\ pos <= Len(prog)
    /\ LET r == Generate(prog[pos], Codegen)
       IN  /\ Environment' = r.cd.Environment
           /\ HeapOffset' = r.cd.HeapOffset
           /\ uuids' = r.cd.uuids
           /\ out' = out \o r.out
           /\ err' = r.err
           /\ pos' = IF r.err # NoErr THEN pos ELSE pos + 1
           /\ phase' = IF r.err # NoErr THEN "failed" ELSE "generate"
           /\ lastDef' = IF r.err = NoErr /\ prog[pos].type = "SymbolDef"
                           THEN MapSet(lastDef, prog[pos].Name,
                                       GenerateBody(prog[pos].Body, Codegen, <<>>).out)
                           ELSE lastDef
    /\ UNCHANGED <<prog, machVars, lexVars>>

\* GenerateFromProgram: return nil
Return ==
    /\ phase = "generate"
    /\ pos > Len(prog)
    /\ phase' = "generated"
    /\ UNCHANGED <<genVars, machVars, lexVars>>

\* the text is assembled and loaded, or rejected
Assemble ==
    /\ phase = "generated"
    /\ phase' = IF Assembles(out) THEN "run" ELSE "rejected"
    /\ code' = out
    /\ pc' = 1
    /\ visits' = [k \in 1..Len(out) |-> 0]
    /\ UNCHANGED <<regs, mem, steps, genVars, lexVars>>

\* the machine executes the instruction at pc
Step ==
    /\ phase = "run"
    /\ pc <= Len(code)
    /\ steps < MaxSteps
    /\ LET s == Exec(code[pc], pc, regs, mem, code)
       IN  /\ pc' = s.pc
           /\ regs' = s.regs
           /\ mem' = s.mem
    /\ visits' = [visits EXCEPT ![pc] = @ + 1]
    /\ steps' = steps + 1
    /\ UNCHANGED <<phase, code, genVars, lexVars>>

\* control runs off the end of the text
Halt ==
    /\ phase = "run"
    /\ pc > Len(code)
    /\ phase' = "halted"
    /\ UNCHANGED <<machVars, genVars, lexVars>>

InitWith(programs) ==
    /\ prog \in programs
    /\ pos = 1
    /\ phase = "start"
    /\ Environment = NewGenerator.Environment
    /\ HeapOffset = NewGenerator.HeapOffset
    /\ uuids = NewGenerator.uuids
    /\ out = <<>>
    /\ err = NoErr
    /\ lastDef = <<>>
    /\ code = <<>>
    /\ pc = 0
    /\ regs = [r \in Registers \ {"zero"} |-> 0]
    /\ mem = <<>>
    /\ visits = <<>>
    /\ steps = 0
    /\ input = <<>>
    /\ tokens = <<>>

(***************************************************************************)
(* Programs compiled and run                                               *)
(***************************************************************************)
MaxCount == 3
MaxTrip == 3
MaxTarget == 10

Literals == {0, 1, -1, 10, -10, 255, MaxInt32, MinInt32 + 1, MinInt32}

Operands == {0, 1, -1, 3, -7, MaxInt32, MinInt32 + 1}

\* v
LiteralPrograms == { <<IntegerNode(v)>> : v \in Literals }

\* 42 a b op
BinOpPrograms ==
    { <<IntegerNode(42), IntegerNode(a), IntegerNode(b), BinOpNode(op)>> :
        a \in Operands, b \in Operands, op \in BinOps }

\* 42 a invert
UnOpPrograms ==
    { <<IntegerNode(42), IntegerNode(a), UnOpNode("invert")>> : a \in Operands }

CmoveSource == StackBase
CmoveDest == StackBase + 32

\* 10 20 30 268500992 268501024 N cmove
CmovePrograms ==
    { <<IntegerNode(10), IntegerNode(20), IntegerNode(30), IntegerNode(CmoveSource),
        IntegerNode(CmoveDest), IntegerNode(n), CmoveNode>> : n \in 0..MaxCount }

LoopStarts == {-2, 0, 5, MaxInt32 - 1}

\* : w do i loop ; L S w      with L = S + d
LoopPrograms ==
    { <<SymbolDefNode("w", <<DoLoopNode(<<SymbolNode("i")>>)>>),
        IntegerNode(Add32(s, d)), IntegerNode(s), SymbolNode("w")>> :
        s \in LoopStarts, d \in (-1)..MaxTrip }

\* : w begin f until ; w
UntilPrograms ==
    { <<SymbolDefNode("w", <<BeginUntilNode(<<IntegerNode(f)>>)>>), SymbolNode("w")>> :
        f \in {0, 1, -1, 7} }

\* variable counter : count_to begin counter @ 1 + counter ! counter @ K = until ;
\* 0 counter ! count_to
CountPrograms ==
    { <<VariableDefNode("counter"),
        SymbolDefNode("count_to",
            <<BeginUntilNode(<<ReceiveNode("counter"), IntegerNode(1), BinOpNode("+"),
                               AssignNode("counter"), ReceiveNode("counter"),
                               IntegerNode(k), BinOpNode("=")>>)>>),
        IntegerNode(0), AssignNode("counter"), SymbolNode("count_to")>> :
        k \in 1..MaxTarget }

\* : w A ; : w B ; w
RedefinePrograms ==
    { <<SymbolDefNode("w", <<IntegerNode(a)>>), SymbolDefNode("w", <<IntegerNode(b)>>),
        SymbolNode("w")>> : a \in {1, 2}, b \in {1, 2} }

\* : add3 + + ; : add3_mul2 add3 2 * ; 1 2 3 add3_mul2
Add3Mul2Program ==
    <<SymbolDefNode("add3", <<BinOpNode("+"), BinOpNode("+")>>),
      SymbolDefNode("add3_mul2", <<SymbolNode("add3"), IntegerNode(2), BinOpNode("*")>>),
      IntegerNode(1), IntegerNode(2), IntegerNode(3), SymbolNode("add3_mul2")>>

MaxDecls == 4

\* variable n1 n1 variable n2 n2 ... : each declaration followed by a
\* reference to the name it declared
DeclPrograms ==
    { [k \in 1..(2 * Len(names)) |->
          IF k % 2 = 1 THEN VariableDefNode(names[(k + 1) \div 2])
                       ELSE SymbolNode(names[k \div 2])] :
        names \in UNION { [1..n -> {"x", "y"}] : n \in 1..MaxDecls } }

RunPrograms ==
    LiteralPrograms \cup BinOpPrograms \cup UnOpPrograms \cup CmovePrograms
    \cup LoopPrograms \cup UntilPrograms \cup CountPrograms \cup RedefinePrograms
    \cup {Add3Mul2Program} \cup DeclPrograms

Init == InitWith(RunPrograms)

Next == GeneratePreamble \/ GenerateNext \/ Return \/ Assemble \/ Step \/ Halt

Spec == Init /\ [][Next]_vars

(***************************************************************************)
(* Observations of the machine                                             *)
(***************************************************************************)
\* the operand stack, bottom first: the cells from StackBase up to sp
Stack ==
    [k \in 1..((regs["sp"] - StackBase) \div 4) |-> ReadMem(mem, StackBase + 4 * (k - 1))]

Generated == phase \in {"generated", "run", "rejected", "halted"}

(***************************************************************************)
(* C9: integer literals                                                    *)
(***************************************************************************)
LiteralLine == out[Len(Preamble) + 1]

\* C9 (as claimed): for every int32 literal v the single-node program's text is
\* a well-formed load-immediate of v followed by a push, the text is accepted,
\* and running it leaves exactly one stack cell, equal to v.
C9_LiteralLeavesValue ==
    (prog \in LiteralPrograms /\ Generated) =>
        /\ LiteralLine.op = "li"
        /\ ImmWellFormed(LiteralLine.imm)
        /\ ImmValue(LiteralLine.imm) = prog[1].Value
        /\ SubSeq(out, Len(Preamble) + 2, Len(out)) = Push("t0")
        /\ phase # "rejected"
        /\ phase = "halted" => Stack = <<prog[1].Value>>

(***************************************************************************)
(* C5: binary and unary operators                                          *)
(***************************************************************************)
\* the canonical boolean: all bits one, or zero
Truth(b) == IF b THEN -1 ELSE 0

\* the reference result of left op right
Reference(op, left, right) ==
    CASE op = "+" -> Add32(left, right)
      [] op = "-" -> Sub32(left, right)
      [] op = "*" -> Mul32(left, right)
      [] op = "/" -> Div32(left, right)
      [] op = "<" -> Truth(left < right)
      [] op = ">" -> Truth(left > right)
      [] op = "<=" -> Truth(left <= right)
      [] op = ">=" -> Truth(left >= right)
      [] op = "=" -> Truth(left = right)
      [] op = "<>" -> Truth(left # right)
      [] op = "and" -> Truth(left # 0 /\ right # 0)
      [] op = "or" -> Truth(left # 0 \/ right # 0)

\* C5: the code for `42 a b op` runs to the end and leaves 42 and one result
\* (two cells popped, one pushed), the result being the reference value of
\* a op b with a the left operand (the quotient where the divisor is not zero);
\* the code for `42 a invert` leaves 42 and all-bits-one if a = 0, else 0.
C5_OperatorResult ==
    /\ (prog \in BinOpPrograms \cup UnOpPrograms /\ Generated) =>
          phase # "rejected" /\ (phase = "run" => steps < MaxSteps)
    /\ (prog \in BinOpPrograms /\ phase = "halted") =>
          /\ Len(Stack) = 2
          /\ Stack[1] = 42
          /\ (prog[4].Name = "/" /\ prog[3].Value = 0)
             \/ Stack[2] = Reference(prog[4].Name, prog[2].Value, prog[3].Value)
          /\ prog[4].Name \in {"<", ">", "<=", ">=", "=", "<>", "and", "or"}
                => Stack[2] \in {0, -1}
    /\ (prog \in UnOpPrograms /\ phase = "halted") =>
          Stack = <<42, Truth(prog[2].Value = 0)>>

\* C5 witness: `42 3 -7 <=` has run: the relation fails only with 3 as the left operand
C5_Witness ==
    /\ prog = <<IntegerNode(42), IntegerNode(3), IntegerNode(-7), BinOpNode("<=")>>
    /\ phase = "halted"
    /\ Stack = <<42, 0>>

(***************************************************************************)
(* C2: cmove                                                               *)
(***************************************************************************)
Executing == phase \in {"run", "halted"}

\* C2 (as claimed): cmove with count N copies exactly N words from source to
\* destination and stops when the count reaches zero: no destination word
\* from the N-th on is ever written (N = 0 writes nothing), the run ends, and
\* at the end the first N destination words equal the source words.
C2_CmoveCopiesExactlyN ==
    (prog \in CmovePrograms /\ Executing) =>
        LET n == prog[6].Value
        IN  /\ \A k \in n..(MaxCount + 4) : (CmoveDest + 4 * k) \notin DOMAIN mem
            /\ phase = "run" => steps < MaxSteps
            /\ phase = "halted" =>
                  /\ \A k \in 0..(n - 1) :
                        ReadMem(mem, CmoveDest + 4 * k) = ReadMem(mem, CmoveSource + 4 * k)
                  /\ Stack = <<10, 20, 30>>

(***************************************************************************)
(* C4: counted loops                                                       *)
(***************************************************************************)
\* the line of the (single) definition of the label with identifier id
LabelAt(id) == Target(code, Label(id, ""))

LoopLimit == prog[2].Value
LoopStart == prog[3].Value

\* the number of index values from S up to but excluding L
ClaimedTrips == IF LoopStart < LoopLimit THEN LoopLimit - LoopStart ELSE 0

\* C4 (as claimed): the body of `: w do i loop ; L S w` executes once for each
\* index value from S up to but excluding L (not at all when S >= L), the k-th
\* execution pushes S+k-1, and the loop terminates.
C4_ExclusiveForAllPairs ==
    (prog \in LoopPrograms /\ Executing) =>
        /\ visits[LabelAt(1)] <= ClaimedTrips
        /\ phase = "run" => steps < MaxSteps
        /\ phase = "halted" =>
              /\ visits[LabelAt(1)] = ClaimedTrips
              /\ Len(Stack) = ClaimedTrips
              /\ \A k \in 1..Len(Stack) : Stack[k] = Add32(LoopStart, k - 1)

\* C4 (amended): the body executes before the first test; the k-th execution
\* pushes S+k-1 (32-bit wrap-around); the loop goes on exactly until the
\* incremented index equals L, so it ends after the first k >= 1 with S+k = L,
\* and it does end when L is within MaxTrip increments of S.
C4_PostTestLoop ==
    (prog \in LoopPrograms /\ Executing /\ visits[LabelAt(1)] >= 1) =>
        LET n == visits[LabelAt(1)]
        IN  /\ Len(Stack) \in {n - 1, n}
            /\ \A k \in 1..Len(Stack) : Stack[k] = Add32(LoopStart, k - 1)
            /\ \A k \in 1..(n - 1) : Add32(LoopStart, k) # LoopLimit
            /\ phase = "halted" => Len(Stack) = n /\ Add32(LoopStart, n) = LoopLimit
            /\ (phase = "run" /\ \E d \in 1..MaxTrip : Add32(LoopStart, d) = LoopLimit)
                  => steps < MaxSteps

\* C4 witness: the loop from MaxInt32-1 to MinInt32+1 has ended after three
\* executions of its body, the index wrapping around
C4_Witness ==
    /\ prog \in LoopPrograms
    /\ LoopStart = MaxInt32 - 1
    /\ LoopLimit = MinInt32 + 1
    /\ phase = "halted"
    /\ Stack = <<MaxInt32 - 1, MaxInt32, MinInt32>>

(***************************************************************************)
(* C10: indefinite loops                                                   *)
(***************************************************************************)
\* the line of the top label of the loop the text ends with
UntilTop == Target(code, code[Len(code)].lbl)

\* C10: the body of begin ... until executes, then the flag is popped and
\* control returns to the top label exactly when the flag is zero:
\* `begin f until` with f # 0 executes its body once and ends with an empty
\* stack, with f = 0 it never leaves the loop, and the loop counting a
\* variable up from 0 to K executes its body exactly K times and ends.
C10_PostTestUntil ==
    /\ (prog \in UntilPrograms /\ Executing) =>
          LET f == prog[1].Body[1].Body[1].Value
          IN  /\ f # 0 => /\ visits[UntilTop] <= 1
                          /\ phase = "run" => steps < MaxSteps
                          /\ phase = "halted" => visits[UntilTop] = 1 /\ Len(Stack) = 0
              /\ f = 0 => /\ phase # "halted"
                          /\ Len(Stack) <= 1
                          /\ pc <= Len(code)
    /\ (prog \in CountPrograms /\ Executing) =>
          LET k == prog[2].Body[1].Body[6].Value
          IN  /\ visits[UntilTop] <= k
              /\ ReadMem(mem, HeapBase) <= k
              /\ phase = "run" => steps < MaxSteps
              /\ phase = "halted" =>
                    /\ visits[UntilTop] = k
                    /\ ReadMem(mem, HeapBase) = k
                    /\ Len(Stack) = 0

\* C10 witness: the loop counting to 10 has ended after 10 executions of its body
C10_Witness ==
    /\ prog \in CountPrograms
    /\ prog[2].Body[1].Body[6].Value = 10
    /\ phase = "halted"
    /\ visits[UntilTop] = 10

(***************************************************************************)
(* C8: word references                                                     *)
(***************************************************************************)
\* C8: the reference at the end of `: w A ; : w B ; w` and of
\* `: add3 + + ; : add3_mul2 add3 2 * ; 1 2 3 add3_mul2` is generated without
\* error and writes exactly the body text of the last definition of its name
\* generated before it, so the first leaves <<B>> and the second <<12>>.
C8_ReferenceInlinesLastDefinition ==
    (prog \in RedefinePrograms \cup {Add3Mul2Program}) =>
        /\ err = NoErr
        /\ phase # "rejected"
        /\ phase = "run" => steps < MaxSteps
        /\ (Generated /\ prog \in RedefinePrograms) =>
              /\ out = Preamble \o lastDef["w"]
              /\ lastDef["w"] = IntegerText(prog[2].Body[1].Value)
        /\ (Generated /\ prog = Add3Mul2Program) =>
              /\ out = Preamble \o IntegerText(1) \o IntegerText(2) \o IntegerText(3)
                         \o lastDef["add3_mul2"]
              /\ lastDef["add3_mul2"] = lastDef["add3"] \o IntegerText(2)
                         \o BinOpPops \o BinOpText("*", 3) \o Push("t0")
        /\ (phase = "halted" /\ prog \in RedefinePrograms) =>
              Stack = <<prog[2].Body[1].Value>>
        /\ (phase = "halted" /\ prog = Add3Mul2Program) => Stack = <<12>>

\* C8 witness: `: w 1 ; : w 2 ; w` has run and left 2
C8_Witness ==
    /\ prog = <<SymbolDefNode("w", <<IntegerNode(1)>>), SymbolDefNode("w", <<IntegerNode(2)>>),
                SymbolNode("w")>>
    /\ phase = "halted"
    /\ Stack = <<2>>

(***************************************************************************)
(* C11: the heap offset                                                    *)
(***************************************************************************)
\* C11: HeapOffset starts at 0; generating a top-level variable declaration
\* adds exactly 4 to it, rebinds only the declared name and writes nothing
\* to the sink; generating any other node leaves it as it was (so it never
\* decreases); and the accessor bound by the k-th declaration, when executed,
\* pushes heap_base + 4(k-1).
C11_HeapOffsetAdvancesByFour ==
    /\ [](phase = "start" => HeapOffset = 0)
    /\ [][ (phase = "generate" /\ pos <= Len(prog)) =>
              IF prog[pos].type = "VariableDef"
                THEN /\ HeapOffset' = HeapOffset + 4
                     /\ out' = out
                     /\ err' = NoErr
                     /\ DOMAIN Environment' = DOMAIN Environment \cup {prog[pos].Name}
                     /\ \A n \in DOMAIN Environment \ {prog[pos].Name} :
                           Environment'[n] = Environment[n]
                ELSE HeapOffset' = HeapOffset ]_vars
    /\ []((phase = "halted" /\ prog \in DeclPrograms) =>
             Stack = [k \in 1..(Len(prog) \div 2) |-> HeapBase + 4 * (k - 1)])

\* C11 witness: four declarations, two of them of a name declared before,
\* have each been referenced, and the text has run to its end
C11_Witness ==
    /\ phase = "halted"
    /\ prog \in DeclPrograms
    /\ Len(prog) = 8
    /\ prog[1].Name = prog[5].Name
    /\ prog[3].Name = prog[7].Name
    /\ HeapOffset = 16
    /\ Stack = <<HeapBase, HeapBase + 4, HeapBase + 8, HeapBase + 12>>

(***************************************************************************)
(* Programs compiled only: every sequence of at most MaxProgLen top-level  *)
(* expressions from a pool                                                 *)
(***************************************************************************)
MaxProgLen == 3

ExpressionPool ==
    { IntegerNode(1),
      SymbolNode("w"), SymbolNode("v"), SymbolNode("x"), SymbolNode("drop"),
      ReceiveNode("x"), AssignNode("x"), VariableDefNode("x"), VariableDefNode("j"),
      \* : w = ;
      SymbolDefNode("w", <<BinOpNode("=")>>),
      \* : w do i loop ;
      SymbolDefNode("w", <<DoLoopNode(<<SymbolNode("i")>>)>>),
      \* : v do do do j loop loop loop ;
      SymbolDefNode("v", <<DoLoopNode(<<DoLoopNode(<<DoLoopNode(<<SymbolNode("j")>>)>>)>>)>>),
      \* : v do w do j loop loop ;
      SymbolDefNode("v", <<DoLoopNode(<<SymbolNode("w"), DoLoopNode(<<SymbolNode("j")>>)>>)>>),
      \* : v if 1 else do x @ loop then ;
      SymbolDefNode("v", <<IfThenElseNode(<<IntegerNode(1)>>,
                                          <<DoLoopNode(<<ReceiveNode("x")>>)>>)>>),
      \* : w v ;
      SymbolDefNode("w", <<SymbolNode("v")>>),
      \* : w 1 w ;
      SymbolDefNode("w", <<IntegerNode(1), SymbolNode("w")>>) }

GenPrograms == UNION { [1..n -> ExpressionPool] : n \in 1..MaxProgLen }

InitGen == InitWith(GenPrograms)

NextGen == GeneratePreamble \/ GenerateNext \/ Return

SpecGen == InitGen /\ [][NextGen]_vars

(***************************************************************************)
(* C1: labels                                                              *)
(***************************************************************************)
\* C1 (as claimed): in the text of one compilation every branch-target label
\* is defined at most once.
C1_LabelsDefinedOnce ==
    \A k \in 1..Len(out) :
        out[k].op = "label" => Cardinality(LabelDefs(out, out[k].lbl)) = 1

(***************************************************************************)
(* C3: nested counted loops                                                *)
(***************************************************************************)
\* the counted loops of a text: the line of the top label and the line of
\* the backward bne that closes it
Loops(text) ==
    { pq \in (1..Len(text)) \X (1..Len(text)) :
        /\ pq[1] < pq[2]
        /\ text[pq[2]].op = "bne"
        /\ text[pq[1]].op = "label"
        /\ text[pq[1]].lbl = text[pq[2]].lbl
        /\ \A m \in (pq[1] + 1)..(pq[2] - 1) :
              ~(text[m].op = "label" /\ text[m].lbl = text[pq[2]].lbl) }

\* C3 (as claimed): a counted loop whose code lies inside the body of
\* another counted loop uses an index register and a limit register that are
\* both different from the enclosing loop's.
C3_NestedLoopsUseDistinctRegisters ==
    \A outer \in Loops(out), inner \in Loops(out) :
        (outer[1] < inner[1] /\ inner[2] < outer[2]) =>
            {out[inner[2]].rs1, out[inner[2]].rs2}
                \cap {out[outer[2]].rs1, out[outer[2]].rs2} = {}

(***************************************************************************)
(* C7: undefined names                                                     *)
(***************************************************************************)
\* The first reference, in generation order, to a name that is not bound
\* when it is reached; bound is the set of names bound on entry.  The result
\* is the name ("" if there is none) and the names bound afterwards.
RECURSIVE Resolve(_, _)
Resolve(nodes, bound) ==
    IF nodes = <<>> THEN [name |-> "", bound |-> bound]
    ELSE LET n == Head(nodes)
             index == IF "i" \in bound THEN "j" ELSE "i"
             r == CASE n.type \in {"Symbol", "Receive", "Assign"} ->
                         [name |-> IF n.Name \in bound THEN "" ELSE n.Name, bound |-> bound]
                    [] n.type = "VariableDef" -> [name |-> "", bound |-> bound \cup {n.Name}]
                    [] n.type = "SymbolDef" ->
                         LET b == Resolve(n.Body, bound)
                         IN  IF b.name # "" THEN b
                             ELSE [name |-> "", bound |-> b.bound \cup {n.Name}]
                    [] n.type = "IfThenElse" -> Resolve(n.Body \o n.ElseBody, bound)
                    [] n.type = "DoLoop" ->
                         LET b == Resolve(n.Body, bound \cup {index})
                         IN  [name |-> b.name, bound |-> b.bound \ {index}]
                    [] n.type = "BeginUntil" -> Resolve(n.Body, bound)
                    [] OTHER -> [name |-> "", bound |-> bound]
         IN  IF r.name # "" THEN r ELSE Resolve(Tail(nodes), r.bound)

Unbound == Resolve(<<prog[pos]>>, DOMAIN Environment).name

\* C7: when the next top-level expression references (directly or in a
\* nested body) a name that is not bound when the reference is generated,
\* Generate returns an undefined-symbol/variable error naming that name,
\* writes nothing to the sink for that expression and GenerateFromProgram
\* stops there (no step follows); otherwise the expression generates
\* without error.
C7_UndefinedNameHalts ==
    [][ /\ phase # "failed"
        /\ (phase = "generate" /\ pos <= Len(prog)) =>
              IF Unbound # ""
                THEN /\ err'.kind \in {"undefined symbol", "undefined variable"}
                     /\ err'.name = Unbound
                     /\ phase' = "failed"
                     /\ out' = out
                     /\ pos' = pos
                ELSE err' = NoErr /\ phase' = "generate" /\ pos' = pos + 1 ]_vars

\* C7 witness: a word definition, generated after another expression that
\* wrote text, has failed on the unbound x in its nested body
C7_Witness ==
    /\ phase = "failed"
    /\ pos = 2
    /\ prog[1].type = "Integer"
    /\ prog[pos].type = "SymbolDef"
    /\ err = Errorf("undefined variable", "x")
    /\ out = Preamble \o IntegerText(1)

(***************************************************************************)
(* C13: loop index bindings                                                *)
(***************************************************************************)
\* Every call of Generate for a counted-loop node made while nodes are
\* generated from the generator cd, at any depth, returns with the
\* environment it was called with.
RECURSIVE LoopsRestore(_, _)
LoopsRestore(nodes, cd) ==
    IF nodes = <<>> THEN TRUE
    ELSE LET n == Head(nodes)
             r == Generate(n, cd)
             x == LoopIndex(cd)
         IN  /\ n.type = "DoLoop" => r.cd.Environment = cd.Environment
             /\ CASE n.type = "DoLoop" ->
                        LoopsRestore(n.Body,
                            [cd EXCEPT !.Environment = MapSet(@, x.name, IndexText(x.ind))])
                  [] n.type \in {"SymbolDef", "BeginUntil"} -> LoopsRestore(n.Body, cd)
                  [] n.type = "IfThenElse" ->
                        /\ LoopsRestore(n.Body, cd)
                        /\ LET t == GenerateBody(n.Body, cd, <<>>)
                           IN  t.err = NoErr => LoopsRestore(n.ElseBody, t.cd)
                  [] OTHER -> TRUE
             /\ r.err = NoErr => LoopsRestore(Tail(nodes), r.cd)

\* C13 (as claimed): when Generate returns for a counted-loop node, with or
\* without an error, at any nesting depth, the environment binds "i", "j"
\* and every other name exactly as it did when that node's generation began.
C13_LoopRestoresBindings ==
    (phase = "generate" /\ pos <= Len(prog)) => LoopsRestore(<<prog[pos]>>, Codegen)

(***************************************************************************)
(* C14: a definition that references its own name                          *)
(***************************************************************************)
\* the next top-level expression is a word definition  : name c name ;
\* whose body is an integer literal followed by a reference to its own name
SelfReference ==
    /\ phase = "generate"
    /\ pos <= Len(prog)
    /\ prog[pos].type = "SymbolDef"
    /\ Len(prog[pos].Body) = 2
    /\ prog[pos].Body[1].type = "Integer"
    /\ prog[pos].Body[2] = SymbolNode(prog[pos].Name)

\* C14 (as claimed): generating a word definition whose body references its
\* own name fails with an undefined-symbol error for that name and leaves
\* the name bound (or unbound) as it was, in every program.
C14_SelfReferenceAlwaysFails ==
    [][ SelfReference =>
          /\ err' = Errorf("undefined symbol", prog[pos].Name)
          /\ phase' = "failed"
          /\ Environment' = Environment ]_vars

\* C14 (amended): generating a word definition whose body references its
\* own name fails with an undefined-symbol error for that name and leaves
\* the environment unchanged when the name is not bound at that point; when
\* it is bound (by an earlier definition), the reference writes the text
\* bound earlier, the definition succeeds and rebinds the name to the new
\* body, leaving every other entry alone.
C14_SelfReferenceSeesEarlierBinding ==
    [][ SelfReference =>
          LET name == prog[pos].Name
          IN  IF name \notin DOMAIN Environment
                THEN /\ err' = Errorf("undefined symbol", name)
                     /\ phase' = "failed"
                     /\ Environment' = Environment
                     /\ out' = out
                ELSE /\ err' = NoErr
                     /\ phase' = "generate"
                     /\ out' = out
                     /\ DOMAIN Environment' = DOMAIN Environment
                     /\ Environment'[name] =
                            IntegerText(prog[pos].Body[1].Value) \o Environment[name]
                     /\ \A n \in DOMAIN Environment \ {name} :
                            Environment'[n] = Environment[n] ]_vars

\* C14 witness: the definition  : w 1 w ;  generated after another
\* expression, with no w bound, has failed and bound nothing
C14_Witness ==
    /\ phase = "failed"
    /\ pos = 2
    /\ prog[pos] = SymbolDefNode("w", <<IntegerNode(1), SymbolNode("w")>>)
    /\ err = Errorf("undefined symbol", "w")
    /\ "w" \notin DOMAIN Environment

(***************************************************************************)
(* C15: complete lines                                                     *)
(***************************************************************************)
\* every instruction of the text ends in a line terminator
CompleteLines(text) == \A k \in 1..Len(text) : text[k].nl

\* C15 (as claimed): every text bound in the environment (built-in words,
\* word bodies, accessors, index pushes) and the text written to the sink so
\* far consist of complete lines, so no line of the output holds two
\* instructions.
C15_TextsAreCompleteLines ==
    /\ \A name \in DOMAIN Environment : CompleteLines(Environment[name])
    /\ CompleteLines(out)

(***************************************************************************)
(* Lexer: the ordered rules of the Root state, first match wins            *)
(***************************************************************************)
Letters ==
    {"a", "b", "c", "d", "e", "f", "g", "h", "i", "j", "k", "l", "m", "n", "o", "p",
     "q", "r", "s", "t", "u", "v", "w", "x", "y", "z", "_",
     "A", "B", "C", "D", "E", "F", "G", "H", "I", "J", "K", "L", "M", "N", "O", "P",
     "Q", "R", "S", "T", "U", "V", "W", "X", "Y", "Z"}
DigitChars == {"0", "1", "2", "3", "4", "5", "6", "7", "8", "9"}
WordChars == Letters \cup DigitChars
Whitespace == {" ", "\r", "\t", "\n"}
SymbolSuffix == {"?", "<", ">", "(", ")", "="}

Rule(name, kind, pattern) == [Name |-> name, kind |-> kind, pattern |-> pattern]

Keyword(name, word) == Rule(name, "word", word)

Rules ==
    << Rule("whitespace", "whitespace", <<>>),
       Rule("comment", "comment", <<>>),
       Keyword("If", <<"i", "f">>),
       Keyword("Then", <<"t", "h", "e", "n">>),
       Keyword("Else", <<"e", "l", "s", "e">>),
       Keyword("And", <<"a", "n", "d">>),
       Keyword("Or", <<"o", "r">>),
       Keyword("Invert", <<"i", "n", "v", "e", "r", "t">>),
       Keyword("Do", <<"d", "o">>),
       Keyword("Loop", <<"l", "o", "o", "p">>),
       Keyword("Variable", <<"v", "a", "r", "i", "a", "b", "l", "e">>),
       Keyword("Begin", <<"b", "e", "g", "i", "n">>),
       Keyword("Until", <<"u", "n", "t", "i", "l">>),
       Keyword("Cmove", <<"c", "m", "o", "v", "e">>),
       Rule("Symbol", "symbol", <<>>),
       Rule("Integer", "integer", <<>>),
       Rule("+", "literal", <<"+">>),
       Rule("-", "literal", <<"-">>),
       Rule("*", "literal", <<"*">>),
       Rule("/", "literal", <<"/">>),
       Rule("<>", "literal", <<"<", ">">>),
       Rule("<", "literal", <<"<">>),
       Rule(">", "literal", <<">">>),
       Rule("<=", "literal", <<"<", "=">>),
       Rule(">=", "literal", <<">", "=">>),
       Rule("=", "literal", <<"=">>),
       Rule(":", "literal", <<":">>),
       Rule(";", "literal", <<";">>),
       Rule("!", "literal", <<"!">>),
       Rule("@", "literal", <<"@">>) >>

\* the length of the longest prefix of text whose characters are all in set
RECURSIVE Run(_, _)
Run(text, set) ==
    IF text # <<>> /\ Head(text) \in set THEN 1 + Run(Tail(text), set) ELSE 0

StartsWith(text, word) == Len(text) >= Len(word) /\ SubSeq(text, 1, Len(word)) = word

\* the greatest k with text[k] = ch among the first n characters, 0 if none
RECURSIVE LastIndex(_, _, _)
LastIndex(text, ch, n) ==
    IF n = 0 THEN 0 ELSE IF text[n] = ch THEN n ELSE LastIndex(text, ch, n - 1)

\* the length of the match of the rule's pattern at the start of text, 0 if
\* it does not match there
Match(rule, text) ==
    CASE rule.kind = "whitespace" -> Run(text, Whitespace)
      [] rule.kind = "comment" ->
            \* (\\[^\n]*)|(\(.*\))
            IF text = <<>> THEN 0
            ELSE LET line == Run(text, {text[k] : k \in 1..Len(text)} \ {"\n"})
                 IN  IF Head(text) = "\\" THEN line
                     ELSE IF Head(text) = "(" THEN LastIndex(text, ")", line)
                     ELSE 0
      [] rule.kind = "word" ->
            \* \bword\b
            IF StartsWith(text, rule.pattern)
                 /\ (Len(text) = Len(rule.pattern)
                     \/ text[Len(rule.pattern) + 1] \notin WordChars)
              THEN Len(rule.pattern) ELSE 0
      [] rule.kind = "symbol" ->
            \* \b[a-zA-Z_]+[a-zA-Z_0-9]*[\?<>(<>)=(<=)(>=)]?\b
            LET n == Run(text, WordChars)
            IN  IF text = <<>> \/ Head(text) \notin Letters THEN 0
                ELSE IF Len(text) >= n + 2 /\ text[n + 1] \in SymbolSuffix
                          /\ text[n + 2] \in WordChars
                       THEN n + 1
                       ELSE n
      [] rule.kind = "integer" ->
            \* (-)?[0-9]+
            IF text # <<>> /\ Head(text) = "-"
              THEN (IF Run(Tail(text), DigitChars) > 0
                      THEN 1 + Run(Tail(text), DigitChars) ELSE 0)
              ELSE Run(text, DigitChars)
      [] rule.kind = "literal" ->
            IF StartsWith(text, rule.pattern) THEN Len(rule.pattern) ELSE 0

\* the rules that match at the start of text, by their place in the list
Matching(text) == {k \in 1..Len(Rules) : Match(Rules[k], text) > 0}

Min(set) == CHOOSE k \in set : \A m \in set : k <= m

\* the lexer's Next: the first rule that matches yields the token
LexNext ==
    /\ phase = "lex"
    /\ input # <<>>
    /\ IF Matching(input) = {}
         THEN /\ phase' = "lexerror"
              /\ UNCHANGED <<input, tokens>>
         ELSE LET rule == Rules[Min(Matching(input))]
                  n == Match(rule, input)
              IN  /\ tokens' = Append(tokens, [kind |-> rule.Name,
                                                value |-> SubSeq(input, 1, n)])
                  /\ input' = SubSeq(input, n + 1, Len(input))
                  /\ phase' = "lex"
    /\ UNCHANGED <<genVars, machVars>>

\* end of input
LexEOF ==
    /\ phase = "lex"
    /\ input = <<>>
    /\ phase' = "lexed"
    /\ UNCHANGED <<genVars, machVars, lexVars>>

MaxInputLen == 3

SourceChars == {"<", ">", "=", "a", "1", " ", "?"}

Sources == UNION { [1..n -> SourceChars] : n \in 1..MaxInputLen }

InitLex ==
    /\ input \in Sources
    /\ tokens = <<>>
    /\ phase = "lex"
    /\ prog = <<>>
    /\ pos = 1
    /\ Environment = NewGenerator.Environment
    /\ HeapOffset = NewGenerator.HeapOffset
    /\ uuids = NewGenerator.uuids
    /\ out = <<>>
    /\ err = NoErr
    /\ lastDef = <<>>
    /\ code = <<>>
    /\ pc = 0
    /\ regs = [r \in Registers \ {"zero"} |-> 0]
    /\ mem = <<>>
    /\ visits = <<>>
    /\ steps = 0

NextLex == LexNext \/ LexEOF

SpecLex == InitLex /\ [][NextLex]_vars

(***************************************************************************)
(* C6: two-character operators                                             *)
(***************************************************************************)
\* C6 (as claimed): the characters <=, >= and <> are never tokenized as the
\* one-character operator followed by another operator token (which they
\* would be if the rule for < or > were tried before the rule for <= or >=).
C6_TwoCharOperatorsAreOneToken ==
    \A k \in 1..(Len(tokens) - 1) :
        /\ ~(tokens[k].kind = "<" /\ tokens[k + 1].kind \in {"=", ">", ">="})
        /\ ~(tokens[k].kind = ">" /\ tokens[k + 1].kind = "=")

(***************************************************************************)
(* Parser: the grammar of the struct tags and the two unions               *)
(***************************************************************************)
Tok(kind, value) == [kind |-> kind, value |-> value]

\* rules whose name starts with a lower-case letter yield no token for the
\* parser
Elide(toks) == SelectSeq(toks, LAMBDA t : t.kind \notin {"whitespace", "comment"})

\* participle.Union[Expression](...), in order
ExpressionUnion ==
    << "Assign", "Receive", "Integer", "Symbol", "BinOp", "UnOp",
       "SymbolDef", "VariableDef", "Cmove" >>

\* a faulty variant of DefinitionExpressionUnion: SymbolDefNode is a member
DefinitionExpressionUnionWithDef ==
    << "Assign", "Receive", "Integer", "Symbol", "BinOp", "UnOp",
       "IfThenElse", "DoLoop", "BeginUntil", "Cmove", "SymbolDef" >>

\* participle.Union[DefinitionExpression](...), in order
DefinitionExpressionUnion ==
    << "Assign", "Receive", "Integer", "Symbol", "BinOp", "UnOp",
       "IfThenElse", "DoLoop", "BeginUntil", "Cmove" >>

\* the alternatives of BinOpNode.Operation, by the text of the token
BinOpWords ==
    { <<"+">>, <<"-">>, <<"*">>, <<"/">>, <<"<">>, <<">">>, <<"<", "=">>,
      <<">", "=">>, <<"=">>, <<"<", ">">>, <<"a", "n", "d">>, <<"o", "r">> }

\* what a production did: whether it matched, the node(s) built and the
\* index of the next token
Parsed(nodes, p) == [ok |-> TRUE, nodes |-> nodes, p |-> p]
NoParse == [ok |-> FALSE, nodes |-> <<>>, p |-> 0]

\* @Type: the token at p has this type
IsType(toks, p, kind) == p <= Len(toks) /\ toks[p].kind = kind
\* 'text': the token at p has this text
IsText(toks, p, value) == p <= Len(toks) /\ toks[p].value = value

\* the value of a decimal digit character
DigitOf(c) == CHOOSE d \in 0..9 : <<"0", "1", "2", "3", "4", "5", "6", "7", "8", "9">>[d + 1] = c

\* the digits of text read as a decimal number and negated, added to ten
\* times acc; MaxInt32 stands for a value outside the int32 range
RECURSIVE Negated(_, _)
Negated(text, acc) ==
    IF text = <<>> THEN acc
    ELSE LET d == DigitOf(Head(text))
         IN  IF acc > -214748364 \/ (acc = -214748364 /\ d <= 8)
               THEN Negated(Tail(text), (acc * 10) - d)
               ELSE MaxInt32

\* Value int32 `parser:"@Integer"`: the text of an Integer token as an int32;
\* ok is FALSE when the number is out of range
ParseInt32(text) ==
    LET minus == Head(text) = "-"
        n == Negated(IF minus THEN Tail(text) ELSE text, 0)
    IN  IF n = MaxInt32 \/ (~minus /\ n = MinInt32)
          THEN [ok |-> FALSE, Value |-> 0]
          ELSE [ok |-> TRUE, Value |-> IF minus THEN n ELSE -n]

RECURSIVE ParseNode(_, _, _), ParseUnion(_, _, _, _), ParseMany(_, _, _, _)

\* @@+ over a union: one or more members; acc holds the nodes matched so far
ParseMany(union, toks, p, acc) ==
    LET r == ParseUnion(union, 1, toks, p)
    IN  IF r.ok THEN ParseMany(union, toks, r.p, acc \o r.nodes)
        ELSE IF acc = <<>> THEN NoParse ELSE Parsed(acc, p)

\* a union: its members are tried in order from member k, the first that
\* matches is taken
ParseUnion(union, k, toks, p) ==
    IF k > Len(union) THEN NoParse
    ELSE LET r == ParseNode(union[k], toks, p)
         IN  IF r.ok THEN r ELSE ParseUnion(union, k + 1, toks, p)

\* one node type, by its struct tags
ParseNode(type, toks, p) ==
    CASE type = "Assign" ->
            IF IsType(toks, p, "Symbol") /\ IsText(toks, p + 1, <<"!">>)
              THEN Parsed(<<AssignNode(toks[p].value)>>, p + 2) ELSE NoParse
      [] type = "Receive" ->
            IF IsType(toks, p, "Symbol") /\ IsText(toks, p + 1, <<"@">>)
              THEN Parsed(<<ReceiveNode(toks[p].value)>>, p + 2) ELSE NoParse
      [] type = "Integer" ->
            IF IsType(toks, p, "Integer") /\ ParseInt32(toks[p].value).ok
              THEN Parsed(<<IntegerNode(ParseInt32(toks[p].value).Value)>>, p + 1)
              ELSE NoParse
      [] type = "Symbol" ->
            IF IsType(toks, p, "Symbol")
              THEN Parsed(<<SymbolNode(toks[p].value)>>, p + 1) ELSE NoParse
      [] type = "BinOp" ->
            IF p <= Len(toks) /\ toks[p].value \in BinOpWords
              THEN Parsed(<<BinOpNode(toks[p].value)>>, p + 1) ELSE NoParse
      [] type = "UnOp" ->
            IF IsText(toks, p, <<"i", "n", "v", "e", "r", "t">>)
              THEN Parsed(<<UnOpNode(toks[p].value)>>, p + 1) ELSE NoParse
      [] type = "VariableDef" ->
            IF IsText(toks, p, <<"v", "a", "r", "i", "a", "b", "l", "e">>)
                 /\ IsType(toks, p + 1, "Symbol")
              THEN Parsed(<<VariableDefNode(toks[p + 1].value)>>, p + 2) ELSE NoParse
      [] type = "Cmove" ->
            IF IsText(toks, p, <<"c", "m", "o", "v", "e">>)
              THEN Parsed(<<CmoveNode>>, p + 1) ELSE NoParse
      [] type = "SymbolDef" ->
            IF IsText(toks, p, <<":">>) /\ IsType(toks, p + 1, "Symbol")
              THEN LET b == ParseMany(DefinitionExpressionUnion, toks, p + 2, <<>>)
                   IN  IF b.ok /\ IsText(toks, b.p, <<";">>)
                         THEN Parsed(<<SymbolDefNode(toks[p + 1].value, b.nodes)>>, b.p + 1)
                         ELSE NoParse
              ELSE NoParse
      [] type = "IfThenElse" ->
            IF IsText(toks, p, <<"i", "f">>)
              THEN LET t == ParseMany(DefinitionExpressionUnion, toks, p + 1, <<>>)
                       e == IF t.ok /\ IsText(toks, t.p, <<"e", "l", "s", "e">>)
                              THEN ParseMany(DefinitionExpressionUnion, toks, t.p + 1, <<>>)
                              ELSE NoParse
                       q == IF e.ok THEN e.p ELSE t.p
                   IN  IF t.ok /\ IsText(toks, q, <<"t", "h", "e", "n">>)
                         THEN Parsed(<<IfThenElseNode(t.nodes, e.nodes)>>, q + 1)
                         ELSE NoParse
              ELSE NoParse
      [] type = "DoLoop" ->
            IF IsText(toks, p, <<"d", "o">>)
              THEN LET b == ParseMany(DefinitionExpressionUnion, toks, p + 1, <<>>)
                   IN  IF b.ok /\ IsText(toks, b.p, <<"l", "o", "o", "p">>)
                         THEN Parsed(<<DoLoopNode(b.nodes)>>, b.p + 1) ELSE NoParse
              ELSE NoParse
      [] type = "BeginUntil" ->
            IF IsText(toks, p, <<"b", "e", "g", "i", "n">>)
              THEN LET b == ParseMany(DefinitionExpressionUnion, toks, p + 1, <<>>)
                   IN  IF b.ok /\ IsText(toks, b.p, <<"u", "n", "t", "i", "l">>)
                         THEN Parsed(<<BeginUntilNode(b.nodes)>>, b.p + 1) ELSE NoParse
              ELSE NoParse

\* Program.Expressions @@+ : one more top-level expression
ParseExpression ==
    /\ phase = "parse"
    /\ pos <= Len(Elide(tokens))
    /\ LET r == ParseUnion(ExpressionUnion, 1, Elide(tokens), pos)
       IN  IF r.ok
             THEN /\ prog' = prog \o r.nodes
                  /\ pos' = r.p
                  /\ phase' = "parse"
             ELSE /\ phase' = "syntaxerror"
                  /\ UNCHANGED <<prog, pos>>
    /\ UNCHANGED <<Environment, HeapOffset, uuids, out, err, lastDef>>
    /\ UNCHANGED <<machVars, lexVars>>

\* end of the token stream: a Program holds at least one expression
ParseEOF ==
    /\ phase = "parse"
    /\ pos > Len(Elide(tokens))
    /\ phase' = IF prog = <<>> THEN "syntaxerror" ELSE "parsed"
    /\ UNCHANGED <<genVars, machVars, lexVars>>

(***************************************************************************)
(* Token streams parsed                                                    *)
(***************************************************************************)
MaxDepth == 2
MaxTokens == 2

TInteger == Tok("Integer", <<"-", "1", "2">>)
TSymbol == Tok("Symbol", <<"w">>)
TPlus == Tok("+", <<"+">>)
TInvert == Tok("Invert", <<"i", "n", "v", "e", "r", "t">>)
TVariable == Tok("Variable", <<"v", "a", "r", "i", "a", "b", "l", "e">>)
TCmove == Tok("Cmove", <<"c", "m", "o", "v", "e">>)
TStore == Tok("!", <<"!">>)
TFetch == Tok("@", <<"@">>)
TColon == Tok(":", <<":">>)
TSemicolon == Tok(";", <<";">>)
TIf == Tok("If", <<"i", "f">>)
TElse == Tok("Else", <<"e", "l", "s", "e">>)
TThen == Tok("Then", <<"t", "h", "e", "n">>)
TDo == Tok("Do", <<"d", "o">>)
TLoop == Tok("Loop", <<"l", "o", "o", "p">>)
TBegin == Tok("Begin", <<"b", "e", "g", "i", "n">>)
TUntil == Tok("Until", <<"u", "n", "t", "i", "l">>)
TSpace == Tok("whitespace", <<" ">>)

TokenPool ==
    { TInteger, TSymbol, TPlus, TInvert, TVariable, TCmove, TStore, TFetch, TColon,
      TSemicolon, TIf, TElse, TThen, TDo, TLoop, TBegin, TUntil, TSpace }

\* the text of one expression without a body, of every kind
SimpleForms ==
    { <<TInteger>>, <<TSymbol>>, <<TPlus>>, <<TInvert>>, <<TVariable, TSymbol>>,
      <<TSymbol, TFetch>>, <<TSymbol, TStore>>, <<TCmove>> }

\* the text of every kind of expression with a body, around the text inner
Wrap(inner) ==
    { <<TColon, TSymbol>> \o inner \o <<TSemicolon>>,
      <<TIf>> \o inner \o <<TThen>>,
      <<TIf>> \o inner \o <<TElse>> \o inner \o <<TThen>>,
      <<TDo>> \o inner \o <<TLoop>>,
      <<TBegin>> \o inner \o <<TUntil>> }

\* the text of one expression of any kind whose bodies, nested at most d
\* deep, hold one expression of any kind each
RECURSIVE Forms(_)
Forms(d) ==
    IF d = 0 THEN SimpleForms
    ELSE SimpleForms \cup UNION { Wrap(f) : f \in Forms(d - 1) }

\* texts in which every construct is complete: one expression nested up to
\* MaxDepth + 1 deep, an expression with a body of two, two expressions,
\* two expressions separated by white space
BracketedInputs ==
    Forms(MaxDepth + 1)
    \cup UNION { Wrap(f \o g) : f \in SimpleForms, g \in SimpleForms }
    \cup { f \o g : f \in Forms(1), g \in Forms(1) }
    \cup { f \o g : f \in SimpleForms, g \in Forms(2) }
    \cup { f \o <<TSpace>> \o g : f \in SimpleForms, g \in SimpleForms }

\* texts that may be incomplete: every short token sequence, an empty body,
\* a construct cut before its last token
OtherInputs ==
    UNION { [1..n -> TokenPool] : n \in 0..MaxTokens }
    \cup Wrap(<<>>)
    \cup { SubSeq(f, 1, Len(f) - 1) : f \in Forms(2) }

ParseInputs == BracketedInputs \cup OtherInputs

InitParse ==
    /\ tokens \in ParseInputs
    /\ input = <<>>
    /\ phase = "parse"
    /\ prog = <<>>
    /\ pos = 1
    /\ Environment = NewGenerator.Environment
    /\ HeapOffset = NewGenerator.HeapOffset
    /\ uuids = NewGenerator.uuids
    /\ out = <<>>
    /\ err = NoErr
    /\ lastDef = <<>>
    /\ code = <<>>
    /\ pc = 0
    /\ regs = [r \in Registers \ {"zero"} |-> 0]
    /\ mem = <<>>
    /\ visits = <<>>
    /\ steps = 0

NextParse == ParseExpression \/ ParseEOF

SpecParse == InitParse /\ [][NextParse]_vars

(***************************************************************************)
(* C12: the two grammar modes                                              *)
(***************************************************************************)
\* the types of the nodes of a body and of every body nested in them
RECURSIVE TypesIn(_)
TypesIn(nodes) ==
    IF nodes = <<>> THEN {}
    ELSE {Head(nodes).type} \cup TypesIn(Head(nodes).Body)
         \cup TypesIn(Head(nodes).ElseBody) \cup TypesIn(Tail(nodes))

TopLevelTypes == { prog[k].type : k \in 1..Len(prog) }

BodyTypes == UNION { TypesIn(prog[k].Body) : k \in 1..Len(prog) }

\* token k lies between the ':' of a word definition and its ';'
InDefinition(toks, k) ==
    \E m \in 1..(k - 1) :
        /\ toks[m] = TColon
        /\ \A n \in m..(k - 1) : toks[n] # TSemicolon

\* C12 (as claimed): the top level accepts only integer literals, symbol
\* references, binary and unary operators and word definitions; a body
\* accepts those first three, unary operators, conditionals, both loops,
\* variable declarations, receive, assign and block copy, and never a word
\* definition.
C12_ModesAsClaimed ==
    /\ TopLevelTypes \subseteq {"Integer", "Symbol", "BinOp", "UnOp", "SymbolDef"}
    /\ BodyTypes \subseteq
          {"Integer", "Symbol", "BinOp", "UnOp", "IfThenElse", "DoLoop", "BeginUntil",
           "VariableDef", "Receive", "Assign", "Cmove"}
    /\ tokens = <<TColon, TSymbol, TVariable, TSymbol, TSemicolon>> => phase # "syntaxerror"

\* C12 (amended): the top level accepts integer literals, symbol references,
\* binary and unary operators, word definitions, variable declarations,
\* receive, assign and block copy, and nothing else; a body of a definition,
\* at any depth, accepts integer literals, symbol references, binary and
\* unary operators, conditionals, both loops, receive, assign and block copy,
\* and nothing else.  So a text of complete constructs is accepted exactly
\* when no ':' or 'variable' lies inside a definition and every conditional
\* and loop keyword does.
C12_GrammarModes ==
    /\ TopLevelTypes \subseteq
          {"Integer", "Symbol", "BinOp", "UnOp", "SymbolDef", "VariableDef",
           "Receive", "Assign", "Cmove"}
    /\ BodyTypes \subseteq
          {"Integer", "Symbol", "BinOp", "UnOp", "IfThenElse", "DoLoop", "BeginUntil",
           "Receive", "Assign", "Cmove"}
    /\ (tokens \in BracketedInputs /\ phase \in {"parsed", "syntaxerror"}) =>
          LET toks == Elide(tokens)
          IN  phase = "parsed" <=>
                \A k \in 1..Len(toks) :
                    /\ toks[k] \in {TColon, TVariable} => ~InDefinition(toks, k)
                    /\ toks[k] \in {TIf, TElse, TThen, TDo, TLoop, TBegin, TUntil}
                          => InDefinition(toks, k)

\* C12 witness: a declaration at top level followed by a definition whose
\* body holds a loop has been accepted
C12_Witness ==
    /\ phase = "parsed"
    /\ Len(prog) = 2
    /\ prog[1].type = "VariableDef"
    /\ prog[2].type = "SymbolDef"
    /\ prog[2].Body[1].type = "DoLoop"
    /\ prog[2].Body[1].Body = <<IntegerNode(-12)>>

====
